---- MODULE Spec2Model ----
(***************************************************************************)
(* Chunk-review tool: the data access layer (db.py), the review form       *)
(* (form_logic.py) and the page script (streamlit_app.py).                 *)
(*                                                                         *)
(* The store holds two tables: the chunk catalog (document_chunks_flat,    *)
(* primary key chunk_uuid) and the review log (chunk_reviews).  The        *)
(* catalog is written by an upstream pipeline and only read here; the      *)
(* review log is appended to by insert_chunk_review.                       *)
(*                                                                         *)
(* Python's random draws and the store's choice of the row a limit(1)      *)
(* query returns are nondeterministic: every operation is modelled by the  *)
(* set of outcomes it can produce, and an action picks one of them.        *)
(***************************************************************************)
EXTENDS Integers, Sequences, FiniteSets, TLC

\* ---------------------------------------------------------------- bounds

\* chunk_number values of the catalog range over 0..MaxNum
MaxNum == 2
\* the review log holds at most MaxReviews rows
MaxReviews == 2

\* ---------------------------------------------------------------- values

\* Python's None and SQL NULL
None == "None"
\* Python truthiness of a string-or-None value
Truthy(v) == v # None /\ v # ""

CHUNKS_TABLE == "document_chunks_flat"
REVIEWS_TABLE == "chunk_reviews"

\* the run the run filter selects, and another run coexisting in the table
CurrentRun == "well_chunks_run1.1"
OtherRun == "other_run"
Runs == {CurrentRun, OtherRun}

\* the primary keys of the catalog rows, in a fixed order
IdSeq == <<"c1", "c2", "c3">>
ChunkIds == {IdSeq[i] : i \in 1..Len(IdSeq)}
\* chunk_uuid arguments: the keys, a falsy value and a key of no row
UuidArgs == ChunkIds \cup {"", None, "zz"}

\* the source column: NULL, the empty string, or a document
Documents == {"docA", "docB"}
Sources == {None, ""} \cup Documents

\* the chunk_number column: NULL, a non-numeric text, or an integer
NullNumber == [kind |-> "null", n |-> 0]
TextNumber == [kind |-> "text", n |-> 0]
IntNumber(n) == [kind |-> "int", n |-> n]
ChunkNumbers == {NullNumber, TextNumber} \cup {IntNumber(n) : n \in 0..MaxNum}

PyInt_lenient(v) == [ok |-> v.kind # "null", num |-> v.n]

\* Python's int(chunk_number): the integer, or TypeError/ValueError
PyInt(v) ==
  IF v.kind = "int" THEN [ok |-> TRUE, num |-> v.n] ELSE [ok |-> FALSE, num |-> 0]

\* a Python dict as a function on its keys
EmptyDict == [k \in {} |-> None]
DictGet(d, k) == IF k \in DOMAIN d THEN d[k] ELSE None
DictPut(d, k, v) == [x \in (DOMAIN d) \cup {k} |-> IF x = k THEN v ELSE d[x]]

VARIABLES
  chunks,         \* chunk catalog: chunk_uuid -> the row's other columns
  reviews,        \* review log: the sequence of inserted rows
  ret,            \* the last data-access call and what it returned or raised
  queries,        \* the store queries that call issued
  session_state,  \* st.session_state of the reviewer session
  page,           \* what the last script run rendered
  wc,             \* the last call of _weighted_choice_by_coverage
  sessions,       \* two reviewer sessions working side by side
  pager           \* a pagination loop in progress

vars == <<chunks, reviews, ret, queries, session_state, page, wc, sessions, pager>>

\* ---------------------------------------------------------------- store

\* the catalog row with primary key c
Row(c) ==
  [chunk_uuid |-> c,
   chunking_run_id |-> chunks[c].chunking_run_id,
   source |-> chunks[c].source,
   chunk_number |-> chunks[c].chunk_number]

Table == {Row(c) : c \in ChunkIds}

\* an equality predicate of a query: .eq(col, val), text or integer
Eq(col, val) == [col |-> col, s |-> val, n |-> 0]
EqNum(col, num) == [col |-> col, s |-> "", n |-> num]

\* a query on a table with its .eq() predicates
Query(table, filters) == [verb |-> "select", table |-> table, filters |-> filters]
\* an insert of one row into a table
InsertQuery(table) == [verb |-> "insert", table |-> table, filters |-> {}]

\* does row r satisfy predicate f (an SQL equality never matches NULL)
Matches(r, f) ==
  CASE f.col = "chunk_uuid" -> r.chunk_uuid = f.s
    [] f.col = "chunking_run_id" -> r.chunking_run_id = f.s
    [] f.col = "source" -> r.source # None /\ r.source = f.s
    [] f.col = "chunk_number" -> r.chunk_number.kind = "int" /\ r.chunk_number.n = f.n
    [] OTHER -> FALSE

\* the rows a catalog query selects
Execute(q) == {r \in Table : \A f \in q.filters : Matches(r, f)}

\* ---------------------------------------------------------------- run filter

get_chunking_run_filter == {Eq("chunking_run_id", CurrentRun)}

_apply_run_filter_unscoped(q) == q

_apply_run_filter(q) ==
  [q EXCEPT !.filters = @ \cup get_chunking_run_filter]

\* ---------------------------------------------------------------- pagination

\* the query every page request of _iter_all_chunk_rows issues
IterChunksQuery(extra_filters) ==
  _apply_run_filter(Query(CHUNKS_TABLE, extra_filters))

\* the rows _iter_all_chunk_rows yields
_iter_all_chunk_rows(extra_filters) == Execute(IterChunksQuery(extra_filters))

\* the query every page request of _iter_all_review_rows issues
IterReviewsQuery == Query(REVIEWS_TABLE, {})

\* the rows _iter_all_review_rows yields
_iter_all_review_rows == {reviews[i] : i \in 1..Len(reviews)}

_get_total_rows_for_chunks_where ==
  Cardinality(Execute(_apply_run_filter(Query(CHUNKS_TABLE, {}))))

\* ---------------------------------------------------------------- coverage

_fetch_all_chunk_uuids_in_run ==
  {r.chunk_uuid : r \in {rr \in _iter_all_chunk_rows({}) : Truthy(rr.chunk_uuid)}}

_fetch_all_reviewed_unscoped ==
  {r.chunk_uuid : r \in {rr \in _iter_all_review_rows : Truthy(rr.chunk_uuid)}}

_fetch_all_reviewed_chunk_uuids ==
  LET in_run == _fetch_all_chunk_uuids_in_run
  IN IF in_run = {} THEN {}
     ELSE {r.chunk_uuid : r \in {rr \in _iter_all_review_rows :
                                   Truthy(rr.chunk_uuid) /\ rr.chunk_uuid \in in_run}}

\* the queries _fetch_all_reviewed_chunk_uuids issues
ReviewedQueries ==
  {IterChunksQuery({})} \cup
  (IF _fetch_all_chunk_uuids_in_run = {} THEN {} ELSE {IterReviewsQuery})

\* source -> chunk_uuids of the run; rows without source or chunk_uuid skipped
_fetch_all_chunks_source_map ==
  LET rows == {r \in _iter_all_chunk_rows({}) : Truthy(r.source) /\ Truthy(r.chunk_uuid)}
  IN [s \in {r.source : r \in rows} |-> {r.chunk_uuid : r \in {rr \in rows : rr.source = s}}]

\* ---------------------------------------------------------------- sampler

\* epsilon = 1e-6 as the fraction EpsNum / EpsDen
EpsNum == 1
EpsDen == 1000000

Max(a, b) == IF a >= b THEN a ELSE b

\* weight = max(0.0, 1.0 - reviewed_in_src / total) + epsilon, as the
\* numerator of a fraction of denominator total * EpsDen
WeightNum_noeps(total, reviewed_in_src) ==
  Max(0, total - reviewed_in_src) * EpsDen

WeightNum(total, reviewed_in_src) ==
  Max(0, total - reviewed_in_src) * EpsDen + EpsNum * total

\* the reviewed chunks of a chunk list
ReviewedIn(cu_list, reviewed_set) == cu_list \cap reviewed_set

\* the weight numerator of source src of the mapping
SourceWeight(source_to_chunks, reviewed_set, src) ==
  WeightNum(Cardinality(source_to_chunks[src]),
            Cardinality(ReviewedIn(source_to_chunks[src], reviewed_set)))

\* random.choices raises ValueError when the weights sum to zero
ValueError == "ValueError"

\* the values _weighted_choice_by_coverage can return (or the error it raises)
_weighted_choice_by_coverage(source_to_chunks, reviewed_set) ==
  LET sources == {src \in DOMAIN source_to_chunks :
                    Cardinality(source_to_chunks[src]) # 0}
      drawable == {src \in sources :
                    SourceWeight(source_to_chunks, reviewed_set, src) > 0}
  IN IF sources = {} THEN {None}
     ELSE IF drawable = {} THEN {ValueError}
     ELSE drawable

\* ---------------------------------------------------------------- selection

\* the outcome of a data-access call: what it returned (kind, uuid), the
\* branch of the code that produced it, and the store queries it issued
Out(kind, uuid, branch, q) == [kind |-> kind, uuid |-> uuid, branch |-> branch, q |-> q]

FetchRowQuery(chunk_uuid) ==
  _apply_run_filter(Query(CHUNKS_TABLE, {Eq("chunk_uuid", chunk_uuid)}))

\* _fetch_row_by_uuid as the last call of an operation that issued q0 before
_fetch_row_by_uuid(chunk_uuid, branch, q0) ==
  LET q == FetchRowQuery(chunk_uuid)
      data == Execute(q)
  IN IF data = {} THEN {Out("none", "", branch, q0 \cup {q})}
     ELSE {Out("row", r.chunk_uuid, branch, q0 \cup {q}) : r \in data}

OrElse_second(xs, ys) == ys

\* "xs or ys" on lists
OrElse(xs, ys) == IF xs # {} THEN xs ELSE ys

get_random_chunk ==
  LET qcount == _apply_run_filter(Query(CHUNKS_TABLE, {}))
      total == _get_total_rows_for_chunks_where
      reviewed == _fetch_all_reviewed_chunk_uuids
      source_to_chunks == _fetch_all_chunks_source_map
      q0 == {qcount} \cup ReviewedQueries \cup {IterChunksQuery({})}
  IN IF total <= 0 THEN {Out("none", "", "empty scope", {qcount})}
     ELSE IF DOMAIN source_to_chunks = {} THEN {Out("none", "", "no sources", q0)}
     ELSE UNION {
       IF chosen_source = ValueError THEN {Out("error", "", "weights", q0)}
       ELSE IF ~Truthy(chosen_source)
       THEN LET q == _apply_run_filter(Query(CHUNKS_TABLE, {}))
            IN {Out("row", r.chunk_uuid, "offset fallback", q0 \cup {q}) : r \in Execute(q)}
       ELSE LET cu_list == source_to_chunks[chosen_source]
                unreviewed == cu_list \ reviewed
            IN UNION {_fetch_row_by_uuid(target_uuid, "weighted source", q0) :
                        target_uuid \in OrElse(unreviewed, cu_list)}
       : chosen_source \in _weighted_choice_by_coverage(source_to_chunks, reviewed)}

get_chunk_by_uuid(chunk_uuid) ==
  IF ~Truthy(chunk_uuid) THEN {Out("none", "", "falsy", {})}
  ELSE _fetch_row_by_uuid(chunk_uuid, "lookup", {})

\* min_p, max_p = 0.05, 0.95 as fractions of PDen
MinP == 5
MaxP == 95
PDen == 100

\* p_same = min_p + (max_p - min_p) * (1.0 - reviewed_in_src / total_in_src),
\* as the numerator of a fraction of denominator PDen * total_in_src
PSameNum_unclamped(total_in_src, reviewed_in_src) ==
  PDen * (total_in_src - reviewed_in_src)

PSameNum(total_in_src, reviewed_in_src) ==
  MinP * total_in_src + (MaxP - MinP) * (total_in_src - reviewed_in_src)

PSameDen(total_in_src) == PDen * total_in_src

\* random.random() draws from [0, 1): can the draw be < p_same, can it be >= p_same
CanDrawBelow(total_in_src, reviewed_in_src) == PSameNum(total_in_src, reviewed_in_src) > 0
CanDrawAbove(total_in_src, reviewed_in_src) ==
  PSameNum(total_in_src, reviewed_in_src) < PSameDen(total_in_src)

\* the same-source pool of get_similar_chunk (lines 277-278 and 286-290)
SamePool_with_current(cu_list, reviewed, chunk_uuid) ==
  OrElse(cu_list \ reviewed, cu_list)

SamePool(cu_list, reviewed, chunk_uuid) ==
  OrElse((cu_list \ reviewed) \ {chunk_uuid}, cu_list \ {chunk_uuid})

\* get_similar_chunk from line 282 on: choose among the other documents
SimilarOther(chunk_uuid, current_source, source_to_chunks, reviewed, cu_list, q0) ==
  LET others == {s \in DOMAIN source_to_chunks :
                   s # current_source /\ source_to_chunks[s] # {}}
      other_sources == [s \in others |-> source_to_chunks[s]]
  IN IF others = {}
     THEN LET pool == cu_list \ {chunk_uuid}
          IN IF pool = {} THEN {Out("none", "", "only chunk", q0)}
             ELSE UNION {_fetch_row_by_uuid(t, "only current source", q0) :
                           t \in OrElse(pool \ reviewed, pool)}
     ELSE UNION {
       IF chosen_other = ValueError THEN {Out("error", "", "weights", q0)}
       ELSE IF ~Truthy(chosen_other)
       THEN LET flat_pool == UNION {other_sources[s] : s \in others}
            IN IF flat_pool = {} THEN {Out("none", "", "flat other sources", q0)}
               ELSE UNION {_fetch_row_by_uuid(t, "flat other sources", q0) :
                             t \in OrElse(flat_pool \ reviewed, flat_pool)}
       ELSE LET other_cu_list == other_sources[chosen_other]
            IN UNION {_fetch_row_by_uuid(t, "weighted other source", q0) :
                        t \in OrElse(other_cu_list \ reviewed, other_cu_list)}
       : chosen_other \in _weighted_choice_by_coverage(other_sources, reviewed)}

SimilarFrom_nofallthrough(chunk_uuid, current_source, q1) ==
  IF ~Truthy(current_source) THEN {Out("none", "", "no source", q1)}
  ELSE
    LET reviewed == _fetch_all_reviewed_chunk_uuids
        source_to_chunks == _fetch_all_chunks_source_map
        cu_list == IF current_source \in DOMAIN source_to_chunks
                   THEN source_to_chunks[current_source] ELSE {}
        q0 == q1 \cup ReviewedQueries \cup {IterChunksQuery({})}
        total_in_src == Cardinality(cu_list)
        reviewed_in_src == Cardinality(ReviewedIn(cu_list, reviewed))
        other == SimilarOther(chunk_uuid, current_source, source_to_chunks,
                              reviewed, cu_list, q0)
        pool == SamePool(cu_list, reviewed, chunk_uuid)
        same == IF pool # {}
                THEN UNION {_fetch_row_by_uuid(t, "same source", q0) : t \in pool}
                ELSE {Out("none", "", "same source", q0)}
    IN IF cu_list = {} THEN {Out("none", "", "source without chunks", q0)}
       ELSE (IF CanDrawBelow(total_in_src, reviewed_in_src) THEN same ELSE {})
            \cup (IF CanDrawAbove(total_in_src, reviewed_in_src) THEN other ELSE {})

\* get_similar_chunk from line 256 on: the current row's source is known
SimilarFrom(chunk_uuid, current_source, q1) ==
  IF ~Truthy(current_source) THEN {Out("none", "", "no source", q1)}
  ELSE
    LET reviewed == _fetch_all_reviewed_chunk_uuids
        source_to_chunks == _fetch_all_chunks_source_map
        cu_list == IF current_source \in DOMAIN source_to_chunks
                   THEN source_to_chunks[current_source] ELSE {}
        q0 == q1 \cup ReviewedQueries \cup {IterChunksQuery({})}
        total_in_src == Cardinality(cu_list)
        reviewed_in_src == Cardinality(ReviewedIn(cu_list, reviewed))
        other == SimilarOther(chunk_uuid, current_source, source_to_chunks,
                              reviewed, cu_list, q0)
        pool == SamePool(cu_list, reviewed, chunk_uuid)
        same == IF pool # {}
                THEN UNION {_fetch_row_by_uuid(t, "same source", q0) : t \in pool}
                ELSE other
    IN IF cu_list = {} THEN {Out("none", "", "source without chunks", q0)}
       ELSE (IF CanDrawBelow(total_in_src, reviewed_in_src) THEN same ELSE {})
            \cup (IF CanDrawAbove(total_in_src, reviewed_in_src) THEN other ELSE {})

get_similar_chunk(chunk_uuid) ==
  IF ~Truthy(chunk_uuid) THEN {Out("none", "", "falsy", {})}
  ELSE LET q == _apply_run_filter(Query(CHUNKS_TABLE, {Eq("chunk_uuid", chunk_uuid)}))
           cur == Execute(q)
       IN IF cur = {} THEN {Out("none", "", "unresolved", {q})}
          ELSE UNION {SimilarFrom(chunk_uuid, r.source, {q}) : r \in cur}

\* ---------------------------------------------------------------- adjacency

Directions == {"next", "prev", "bogus"}

AdjacentLookup_anysource(source, target_num, q1) ==
  LET q2 == _apply_run_filter(Query(CHUNKS_TABLE, {EqNum("chunk_number", target_num)}))
      data == Execute(q2)
  IN IF data # {} THEN {Out("row", r.chunk_uuid, "found", q1 \cup {q2}) : r \in data}
     ELSE {Out("false", "", "absent", q1 \cup {q2})}

\* get_adjacent_chunk lines 354-359: the row of the source at target_num
AdjacentLookup(source, target_num, q1) ==
  LET q2 == _apply_run_filter(Query(CHUNKS_TABLE,
              {Eq("source", source), EqNum("chunk_number", target_num)}))
      data == Execute(q2)
  IN IF data # {} THEN {Out("row", r.chunk_uuid, "found", q1 \cup {q2}) : r \in data}
     ELSE {Out("false", "", "absent", q1 \cup {q2})}

AdjacentFrom_noguard(cur, direction, q1) ==
  IF cur.source = None \/ cur.chunk_number = NullNumber
  THEN {Out("false", "", "null column", q1)}
  ELSE IF ~PyInt(cur.chunk_number).ok THEN {Out("false", "", "not a number", q1)}
  ELSE LET num == PyInt(cur.chunk_number).num
       IN IF direction = "next" THEN AdjacentLookup(cur.source, num + 1, q1)
          ELSE IF direction = "prev" THEN AdjacentLookup(cur.source, num - 1, q1)
          ELSE {Out("error", "", "direction", q1)}

\* get_adjacent_chunk from line 335 on: the current row cur is resolved
AdjacentFrom(cur, direction, q1) ==
  IF cur.source = None \/ cur.chunk_number = NullNumber
  THEN {Out("false", "", "null column", q1)}
  ELSE IF ~PyInt(cur.chunk_number).ok THEN {Out("false", "", "not a number", q1)}
  ELSE LET num == PyInt(cur.chunk_number).num
       IN IF direction = "next" THEN AdjacentLookup(cur.source, num + 1, q1)
          ELSE IF direction = "prev"
          THEN IF num - 1 < 0 THEN {Out("false", "", "before first", q1)}
               ELSE AdjacentLookup(cur.source, num - 1, q1)
          ELSE {Out("error", "", "direction", q1)}

get_adjacent_chunk(chunk_uuid, direction) ==
  IF ~Truthy(chunk_uuid) THEN {Out("false", "", "falsy", {})}
  ELSE LET q == _apply_run_filter(Query(CHUNKS_TABLE, {Eq("chunk_uuid", chunk_uuid)}))
           cur_resp == Execute(q)
       IN IF cur_resp = {} THEN {Out("false", "", "unresolved", {q})}
          ELSE UNION {AdjacentFrom(r, direction, {q}) : r \in cur_resp}

\* ---------------------------------------------------------------- reviews

\* form payloads: dicts with and without the chunk_uuid key
Payloads ==
  {EmptyDict, [k \in {"name"} |-> "Eva"]} \cup
  {[k \in {"chunk_uuid", "name"} |-> IF k = "chunk_uuid" THEN v ELSE "Eva"] :
     v \in ChunkIds \cup {"", None}}

\* the row insert_chunk_review builds from the payload
ReviewRow(form_payload) == [chunk_uuid |-> DictGet(form_payload, "chunk_uuid")]

\* does insert_chunk_review reject the payload before any store call
PayloadRejected(form_payload) ==
  DOMAIN form_payload = {} \/ "chunk_uuid" \notin DOMAIN form_payload

insert_chunk_review_upsert(form_payload) ==
  IF PayloadRejected(form_payload)
  THEN [out |-> Out("error", "", "chunk_uuid is required", {}), log |-> reviews]
  ELSE [out |-> Out("row", DictGet(form_payload, "chunk_uuid"), "inserted",
                    {InsertQuery(REVIEWS_TABLE)}),
        log |-> IF \E i \in 1..Len(reviews) :
                     reviews[i].chunk_uuid = DictGet(form_payload, "chunk_uuid")
                THEN [i \in 1..Len(reviews) |->
                        IF reviews[i].chunk_uuid = DictGet(form_payload, "chunk_uuid")
                        THEN ReviewRow(form_payload) ELSE reviews[i]]
                ELSE Append(reviews, ReviewRow(form_payload))]

\* insert_chunk_review: the outcome, and the review log after the call
insert_chunk_review(form_payload) ==
  IF PayloadRejected(form_payload)
  THEN [out |-> Out("error", "", "chunk_uuid is required", {}), log |-> reviews]
  ELSE [out |-> Out("row", DictGet(form_payload, "chunk_uuid"), "inserted",
                    {InsertQuery(REVIEWS_TABLE)}),
        log |-> Append(reviews, ReviewRow(form_payload))]

\* ---------------------------------------------------------------- initial states

\* One catalog for each assignment of columns to the rows, up to a renaming
\* of the primary keys: the rows are listed in non-decreasing rank.
RunRank(r) == IF r = CurrentRun THEN 0 ELSE 1
SourceRank(s) == CASE s = None -> 0 [] s = "" -> 1 [] s = "docA" -> 2 [] OTHER -> 3
NumberRank(v) == CASE v.kind = "null" -> 0 [] v.kind = "text" -> 1 [] OTHER -> v.n + 2
RowRank(cols) ==
  (RunRank(cols.chunking_run_id) * 4 + SourceRank(cols.source)) * (MaxNum + 3)
  + NumberRank(cols.chunk_number)

Catalogs(numbers) ==
  {cat \in [ChunkIds -> [chunking_run_id : Runs, source : Sources, chunk_number : numbers]] :
     \A i \in 1..(Len(IdSeq) - 1) : RowRank(cat[IdSeq[i]]) <= RowRank(cat[IdSeq[i + 1]])}

NoRet == [op |-> "none", arg |-> "", direction |-> "", kind |-> "", uuid |-> "", branch |-> ""]
NoPage ==
  [run |-> "none", complete |-> FALSE, chunk |-> None, presented |-> None,
   before |-> None, uuid_before |-> None, inserted |-> FALSE, raised |-> FALSE]
NoChoice == [called |-> FALSE, source_to_chunks |-> EmptyDict, reviewed_set |-> {}, chosen |-> None]

\* the reviewer sessions of the two-session specification
SessionIds == {"s1", "s2"}
\* a session before its first script run: empty st.session_state, no chunk
\* presented, no submission pending, no review inserted by the current run
Fresh ==
  [ss |-> EmptyDict, pc |-> "idle", chunk |-> None, pending |-> FALSE, inserted |-> FALSE]
NoSessions == [s \in SessionIds |-> Fresh]
\* no pagination loop started
NoPager ==
  [loop |-> "none", extra_filters |-> {}, start |-> 0, offsets |-> << >>,
   yielded |-> << >>, done |-> FALSE]

\* no call made yet, no script run yet
Blank ==
  /\ reviews = << >>
  /\ ret = NoRet
  /\ queries = {}
  /\ session_state = EmptyDict
  /\ page = NoPage
  /\ wc = NoChoice
  /\ sessions = NoSessions
  /\ pager = NoPager

\* catalogs that differ in run and source; every chunk_number is 0
Init ==
  /\ chunks \in Catalogs({IntNumber(0)})
  /\ Blank

\* catalogs that differ in run, source and chunk_number
InitCatalog ==
  /\ chunks \in Catalogs(ChunkNumbers)
  /\ Blank

\* ---------------------------------------------------------------- actions

Ret(op, arg, direction, o) ==
  [op |-> op, arg |-> arg, direction |-> direction,
   kind |-> o.kind, uuid |-> o.uuid, branch |-> o.branch]

\* Calls are synchronous and single-threaded: a call starts when no call is
\* in progress, and Return hands its result back to the caller.
Idle == ret.op = "none"

Return ==
  /\ ~Idle
  /\ ret' = NoRet
  /\ queries' = {}
  /\ UNCHANGED <<chunks, reviews, session_state, page, wc, sessions, pager>>

GetRandomChunk ==
  \E o \in get_random_chunk :
    /\ Idle
    /\ ret' = Ret("get_random_chunk", "", "", o)
    /\ queries' = o.q
    /\ UNCHANGED <<chunks, reviews, session_state, page, wc, sessions, pager>>

GetSimilarChunk ==
  \E x \in UuidArgs : \E o \in get_similar_chunk(x) :
    /\ Idle
    /\ ret' = Ret("get_similar_chunk", x, "", o)
    /\ queries' = o.q
    /\ UNCHANGED <<chunks, reviews, session_state, page, wc, sessions, pager>>

GetChunkByUuid ==
  \E x \in UuidArgs : \E o \in get_chunk_by_uuid(x) :
    /\ Idle
    /\ ret' = Ret("get_chunk_by_uuid", x, "", o)
    /\ queries' = o.q
    /\ UNCHANGED <<chunks, reviews, session_state, page, wc, sessions, pager>>

GetAdjacentChunk ==
  \E x \in UuidArgs : \E d \in Directions : \E o \in get_adjacent_chunk(x, d) :
    /\ Idle
    /\ ret' = Ret("get_adjacent_chunk", x, d, o)
    /\ queries' = o.q
    /\ UNCHANGED <<chunks, reviews, session_state, page, wc, sessions, pager>>

\* the payload's chunk_uuid as the call's argument: "no key" when it has none
PayloadArg(form_payload) ==
  IF "chunk_uuid" \in DOMAIN form_payload THEN form_payload["chunk_uuid"]
  ELSE IF DOMAIN form_payload = {} THEN "empty payload" ELSE "no key"

InsertChunkReview ==
  \E form_payload \in Payloads :
    LET r == insert_chunk_review(form_payload)
    IN /\ Idle
       /\ Len(reviews) < MaxReviews
       /\ reviews' = r.log
       /\ ret' = Ret("insert_chunk_review", PayloadArg(form_payload), "", r.out)
       /\ queries' = r.out.q
       /\ UNCHANGED <<chunks, session_state, page, wc, sessions, pager>>

\* the coverage helper called on its own; the set it returns is the value of
\* _fetch_all_reviewed_chunk_uuids in the state the call leaves
FetchAllReviewedChunkUuids ==
  /\ Idle
  /\ ret' = Ret("_fetch_all_reviewed_chunk_uuids", "", "",
                Out("set", "", IF _fetch_all_chunk_uuids_in_run = {}
                               THEN "empty scope" ELSE "review log read", {}))
  /\ queries' = ReviewedQueries
  /\ UNCHANGED <<chunks, reviews, session_state, page, wc, sessions, pager>>

Next ==
  \/ InsertChunkReview \/ GetRandomChunk \/ GetSimilarChunk \/ GetChunkByUuid
  \/ FetchAllReviewedChunkUuids \/ Return

Spec == Init /\ [][Next]_vars

\* ---- get_adjacent_chunk alone, on catalogs of every chunk_number

NextAdjacent == GetAdjacentChunk \/ Return

SpecAdjacent == InitCatalog /\ [][NextAdjacent]_vars

\* ---- the four selection operations on catalogs of several runs

InitScope ==
  /\ chunks \in Catalogs({IntNumber(0), IntNumber(1)})
  /\ Blank

NextScope ==
  GetAdjacentChunk \/ GetRandomChunk \/ GetSimilarChunk \/ GetChunkByUuid \/ Return

SpecScope == InitScope /\ [][NextScope]_vars

\* ---------------------------------------------------------------- the sampler alone

\* source -> chunk list mappings, lists without a chunk included
Mappings ==
  UNION {[srcs -> SUBSET ChunkIds] : srcs \in SUBSET Documents}

ReviewedSets == SUBSET (ChunkIds \cup {"zz"})

\* a catalog without a row in scope: the sampler reads no table
InitSampler ==
  /\ chunks = [c \in ChunkIds |->
                 [chunking_run_id |-> OtherRun, source |-> None, chunk_number |-> IntNumber(0)]]
  /\ reviews = << >>
  /\ ret = NoRet
  /\ queries = {}
  /\ session_state = EmptyDict
  /\ page = NoPage
  /\ wc \in [called : {FALSE}, source_to_chunks : Mappings,
             reviewed_set : ReviewedSets, chosen : {None}]
  /\ sessions = NoSessions
  /\ pager = NoPager

WeightedChoiceByCoverage ==
  \E chosen \in _weighted_choice_by_coverage(wc.source_to_chunks, wc.reviewed_set) :
    /\ ~wc.called
    /\ wc' = [wc EXCEPT !.called = TRUE, !.chosen = chosen]
    /\ UNCHANGED <<chunks, reviews, ret, queries, session_state, page, sessions, pager>>

NextSampler == WeightedChoiceByCoverage

SpecSampler == InitSampler /\ [][NextSampler]_vars

\* ---------------------------------------------------------------- the review form

\* the form fields onclick requires, by their widget keys
RequiredFields == {"name", "chunk_size", "well_assignment", "chunk_info", "has_well_diagram"}

\* what the reviewer has filled in when pressing Submit: every required
\* field, every field but one, or none
FilledChoices ==
  {RequiredFields, {}} \cup {RequiredFields \ {f} : f \in RequiredFields}

has_missing_fields(ss) ==
  IF "missing_fields" \in DOMAIN ss THEN Cardinality(ss["missing_fields"]) # 0 ELSE FALSE

is_submitted(ss) ==
  IF "form_submitted" \in DOMAIN ss THEN ss["form_submitted"] ELSE FALSE

is_submitted_correctly(ss) == is_submitted(ss) /\ ~has_missing_fields(ss)

\* the payload onclick preserves in st.session_state.submitted
SubmittedPayload(ss) ==
  [k \in {"chunk_uuid", "name"} |-> IF k = "chunk_uuid" THEN ss["chunk_uuid"] ELSE "Eva"]

\* ChunkForm.onclick, with the widgets holding the fields of `filled`
onclick(ss, filled) ==
  LET ss1 == DictPut(ss, "missing_fields", RequiredFields \ filled)
      ss2 == DictPut(ss1, "form_submitted", TRUE)
  IN IF is_submitted_correctly(ss2)
     THEN DictPut(ss2, "submitted", SubmittedPayload(ss2))
     ELSE ss2

set_session_keep_uuid(ss, chunk_uuid) ==
  LET ss1 == IF "form_submitted" \notin DOMAIN ss
             THEN DictPut(ss, "form_submitted", FALSE) ELSE ss
      ss2 == IF "missing_fileds" \notin DOMAIN ss1
             THEN DictPut(ss1, "missing_fileds", {}) ELSE ss1
  IN IF "chunk_uuid" \in DOMAIN ss2 THEN ss2 ELSE DictPut(ss2, "chunk_uuid", chunk_uuid)

\* ChunkForm.set_session for the chunk row of key chunk_uuid
set_session(ss, chunk_uuid) ==
  LET ss1 == IF "form_submitted" \notin DOMAIN ss
             THEN DictPut(ss, "form_submitted", FALSE) ELSE ss
      ss2 == IF "missing_fileds" \notin DOMAIN ss1
             THEN DictPut(ss1, "missing_fileds", {}) ELSE ss1
  IN DictPut(ss2, "chunk_uuid", chunk_uuid)

\* ---------------------------------------------------------------- the page script

\* streamlit_app.py lines 17-23: the chunk to present
LoadChunk(ss) ==
  IF is_submitted(ss)
  THEN IF is_submitted_correctly(ss)
       THEN get_similar_chunk(ss["chunk_uuid"])
       ELSE get_chunk_by_uuid(ss["chunk_uuid"])
  ELSE get_random_chunk

\* One run of streamlit_app.py from session state ss; `submitted` is the
\* value of the form's submit button in this run.  The calls that only read
\* the store to render the page (adjacent chunks, counts, statistics, the
\* document link) change no state and are left out; the chunk rows carry the
\* columns the page reads and drive_map.json lists every source.
\* The result: the session state, the review log and the page after the run.
\* The page records the run (a submission or not, and whether complete), the
\* chunk it presents (None: the "No chunks found" warning), the chunk last
\* presented, and the chunk shown and the session's chunk_uuid before the run.
RunScript(ss, submitted, complete, log, last, shown) ==
  {IF o.kind = "row"
   THEN LET ss1 == set_session(ss, o.uuid)
            insert == submitted /\ is_submitted_correctly(ss1)
        IN [session_state |-> ss1,
            reviews |-> IF insert /\ ~PayloadRejected(ss1["submitted"])
                        THEN Append(log, ReviewRow(ss1["submitted"])) ELSE log,
            page |-> [run |-> IF submitted THEN "submit" ELSE "load",
                      complete |-> complete,
                      chunk |-> o.uuid, presented |-> o.uuid,
                      before |-> shown, uuid_before |-> DictGet(ss, "chunk_uuid"),
                      inserted |-> insert /\ ~PayloadRejected(ss1["submitted"]),
                      raised |-> insert /\ PayloadRejected(ss1["submitted"])]]
   ELSE [session_state |-> ss,
         reviews |-> log,
         page |-> [run |-> IF submitted THEN "submit" ELSE "load",
                   complete |-> complete,
                   chunk |-> None, presented |-> last,
                   before |-> shown, uuid_before |-> DictGet(ss, "chunk_uuid"),
                   inserted |-> FALSE, raised |-> o.kind = "error"]]
   : o \in LoadChunk(ss)}

\* the script runs without a submission: the first load, or a rerun
Load ==
  \E r \in RunScript(session_state, FALSE, FALSE, reviews, page.presented, page.chunk) :
    /\ session_state' = r.session_state
    /\ reviews' = r.reviews
    /\ page' = r.page
    /\ UNCHANGED <<chunks, ret, queries, wc, sessions, pager>>

\* the reviewer presses Submit on the presented chunk: onclick, then the script
Submit ==
  /\ page.chunk # None
  /\ Len(reviews) < MaxReviews
  /\ \E filled \in FilledChoices :
       \E r \in RunScript(onclick(session_state, filled), TRUE, filled = RequiredFields,
                          reviews, page.presented, page.chunk) :
         /\ session_state' = r.session_state
         /\ reviews' = r.reviews
         /\ page' = r.page
         /\ UNCHANGED <<chunks, ret, queries, wc, sessions, pager>>

NextApp == Load \/ Submit

SpecApp == Init /\ [][NextApp]_vars

\* ---------------------------------------------------------------- counts and statistics

\* Each operation of this section returns its count n and the queries q it
\* issued.

\* a call of a stored procedure of the database, with the run filter as
\* parameters
RpcQuery(fn) == [verb |-> "rpc", table |-> fn, filters |-> get_chunking_run_filter]

\* .in_("chunk_uuid", batch) on the review log
InBatchQuery == Query(REVIEWS_TABLE, {Eq("chunk_uuid", "in (batch)")})

Counted(n, q) == [n |-> n, q |-> q]

\* the source of the chunk, looked up under the run filter (None when the
\* chunk_uuid is falsy or unresolved), and the query issued
SourceOf(chunk_uuid) ==
  IF ~Truthy(chunk_uuid) THEN [source |-> None, q |-> {}]
  ELSE LET q == _apply_run_filter(Query(CHUNKS_TABLE, {Eq("chunk_uuid", chunk_uuid)}))
           cur == Execute(q)
       IN IF cur = {} THEN [source |-> None, q |-> {q}]
          ELSE [source |-> (CHOOSE r \in cur : TRUE).source, q |-> {q}]

count_chunks_in_document(chunk_uuid) ==
  LET cur == SourceOf(chunk_uuid)
      q2 == _apply_run_filter(Query(CHUNKS_TABLE, {Eq("source", cur.source)}))
  IN IF ~Truthy(cur.source) THEN Counted(0, cur.q)
     ELSE Counted(Cardinality(Execute(q2)), cur.q \cup {q2})

total_chunks ==
  Counted(_get_total_rows_for_chunks_where, {_apply_run_filter(Query(CHUNKS_TABLE, {}))})

_distinct_chunk_count_in_reviews_for_run ==
  LET in_run == _fetch_all_chunk_uuids_in_run
      seen == {r.chunk_uuid : r \in {rr \in _iter_all_review_rows :
                                       Truthy(rr.chunk_uuid) /\ rr.chunk_uuid \in in_run}}
  IN IF in_run = {} THEN Counted(0, {IterChunksQuery({})})
     ELSE Counted(Cardinality(seen), {IterChunksQuery({}), IterReviewsQuery})

chunks_with_at_least_one_review == _distinct_chunk_count_in_reviews_for_run

reviewed_chunks_in_this_document(chunk_uuid) ==
  LET cur == SourceOf(chunk_uuid)
      qdoc == IterChunksQuery({Eq("source", cur.source)})
      doc_chunk_uuids ==
        {r.chunk_uuid : r \in {rr \in _iter_all_chunk_rows({Eq("source", cur.source)}) :
                                 Truthy(rr.chunk_uuid)}}
      distinct_reviewed ==
        {r.chunk_uuid : r \in {rr \in _iter_all_review_rows :
                                 rr.chunk_uuid \in doc_chunk_uuids /\ Truthy(rr.chunk_uuid)}}
  IN IF ~Truthy(cur.source) THEN Counted(0, cur.q)
     ELSE IF doc_chunk_uuids = {} THEN Counted(0, cur.q \cup {qdoc})
     ELSE Counted(Cardinality(distinct_reviewed), cur.q \cup {qdoc, InBatchQuery})

documents_with_at_least_one_review ==
  LET uuid_to_source == _fetch_all_chunks_source_map
      mapped == UNION {uuid_to_source[s] : s \in DOMAIN uuid_to_source}
      reviewed_sources ==
        {s \in DOMAIN uuid_to_source :
           \E r \in _iter_all_review_rows : r.chunk_uuid \in uuid_to_source[s]}
  IN IF mapped = {} THEN Counted(0, {IterChunksQuery({})})
     ELSE Counted(Cardinality(reviewed_sources), {IterChunksQuery({}), IterReviewsQuery})

\* The three counts below are computed by stored procedures of the database;
\* the client sends the call and returns the number it gets back.
total_reviews == {RpcQuery("count_reviewed_chunks_for_run")}
total_documents == {RpcQuery("count_distinct_sources")}
total_reviews_by_user(name) ==
  IF ~Truthy(name) THEN {} ELSE {RpcQuery("count_reviewed_chunks_for_user")}

\* ---------------------------------------------------------------- two reviewer sessions

\* Each reviewer session runs streamlit_app.py on its own st.session_state;
\* both work on the same store.  The store executes one call at a time, so a
\* script run is a sequence of steps, one for the chunk loading, one for the
\* reads that render the chunk, one for the form processing and one for the
\* statistics, and the steps of the two sessions interleave.  The queries of a
\* step are the value of LoadChunk, RenderQueries, insert_chunk_review or
\* StatsQueries in the state the step starts from.

\* what a reviewer of these sessions fills in before pressing Submit
SessionFilled == {RequiredFields, RequiredFields \ {"name"}, {}}

\* st.session_state.name after a submission: the name the reviewer selected
NameOf(ss) ==
  IF "missing_fields" \in DOMAIN ss /\ "name" \notin ss["missing_fields"] THEN "Eva" ELSE None

\* streamlit_app.py lines 17-30: the chunk loading of a run that starts from
\* session state ss0; submitted is the value of the submit button
StartRun(s, ss0, submitted) ==
  \E o \in LoadChunk(ss0) :
    /\ sessions' = [sessions EXCEPT ![s] =
         IF o.kind = "row"
         THEN [ss |-> set_session(ss0, o.uuid), pc |-> "render", chunk |-> o.uuid,
               pending |-> submitted, inserted |-> FALSE]
         ELSE [ss |-> ss0, pc |-> "idle", chunk |-> None, pending |-> FALSE,
               inserted |-> FALSE]]
    /\ UNCHANGED <<chunks, reviews, ret, queries, session_state, page, wc, pager>>

\* the script runs without a submission: the first load, or a rerun
Rerun(s) ==
  /\ sessions[s].pc = "idle"
  /\ StartRun(s, sessions[s].ss, FALSE)

\* the reviewer presses Submit on the presented chunk: onclick, then the script
Press(s) ==
  /\ sessions[s].pc = "idle"
  /\ sessions[s].chunk # None
  /\ Len(reviews) + Cardinality({t \in SessionIds : sessions[t].pending}) < MaxReviews
  /\ \E filled \in SessionFilled : StartRun(s, onclick(sessions[s].ss, filled), TRUE)

\* the queries of streamlit_app.py lines 36-66: the adjacent chunks, the
\* document's chunk count and the chunk of the source badge
RenderQueries(ss) ==
  UNION {o.q : o \in get_adjacent_chunk(ss["chunk_uuid"], "prev")}
  \cup count_chunks_in_document(ss["chunk_uuid"]).q
  \cup UNION {o.q : o \in get_adjacent_chunk(ss["chunk_uuid"], "next")}
  \cup (IF is_submitted_correctly(ss)
        THEN UNION {o.q : o \in get_chunk_by_uuid(ss["submitted"]["chunk_uuid"])}
        ELSE {})

Render(s) ==
  /\ sessions[s].pc = "render"
  /\ sessions' = [sessions EXCEPT ![s].pc = "form"]
  /\ UNCHANGED <<chunks, reviews, ret, queries, session_state, page, wc, pager>>

\* streamlit_app.py lines 103-108: the review of a complete submission is
\* inserted; an exception ends the run
Process(s) ==
  /\ sessions[s].pc = "form"
  /\ IF sessions[s].pending /\ is_submitted_correctly(sessions[s].ss)
     THEN LET r == insert_chunk_review(sessions[s].ss["submitted"])
          IN /\ reviews' = r.log
             /\ sessions' = [sessions EXCEPT ![s] =
                  IF r.out.kind = "row"
                  THEN [@ EXCEPT !.pc = "stats", !.pending = FALSE, !.inserted = TRUE]
                  ELSE [@ EXCEPT !.pc = "idle", !.pending = FALSE]]
     ELSE /\ reviews' = reviews
          /\ sessions' = [sessions EXCEPT ![s].pc = "stats", ![s].pending = FALSE]
  /\ UNCHANGED <<chunks, ret, queries, session_state, page, wc, pager>>

\* the queries of streamlit_app.py lines 112-156
StatsQueries(ss) ==
  total_chunks.q \cup chunks_with_at_least_one_review.q
  \cup total_documents \cup documents_with_at_least_one_review.q
  \cup reviewed_chunks_in_this_document(ss["chunk_uuid"]).q
  \cup count_chunks_in_document(ss["chunk_uuid"]).q
  \cup (IF Truthy(NameOf(ss)) THEN total_reviews \cup total_reviews_by_user(NameOf(ss)) ELSE {})

Stats(s) ==
  /\ sessions[s].pc = "stats"
  /\ sessions' = [sessions EXCEPT ![s].pc = "idle"]
  /\ UNCHANGED <<chunks, reviews, ret, queries, session_state, page, wc, pager>>

NextSessions ==
  \E s \in SessionIds : Rerun(s) \/ Press(s) \/ Render(s) \/ Process(s) \/ Stats(s)

\* catalogs whose rows belong to documents, at most one of them to another run
InitSessions ==
  /\ chunks \in {cat \in Catalogs({IntNumber(0)}) :
                   /\ \A c \in ChunkIds : cat[c].source \in Documents
                   /\ cat[IdSeq[2]].chunking_run_id = CurrentRun}
  /\ Blank

SpecSessions == InitSessions /\ [][NextSessions]_vars

\* ---------------------------------------------------------------- the pagination loops

\* The loops of _iter_all_chunk_rows and _iter_all_review_rows, one page
\* request per step.  The store keeps its rows in one order (the catalog in
\* the order of IdSeq, the review log in insertion order) and answers
\* .range(first, last) with the rows at the positions first..last of the
\* rows the query matches.

\* the page window: 2000 rows in the source, scaled to the tables of the model
_PAGE == 2

Min(a, b) == IF a <= b THEN a ELSE b

\* the rows a catalog query matches, in the store's order
Result(q) ==
  LET ids == SelectSeq(IdSeq, LAMBDA c : Row(c) \in Execute(q))
  IN [i \in 1..Len(ids) |-> Row(ids[i])]

PageOf_exclusive(rows, first, last) == SubSeq(rows, first + 1, Min(last, Len(rows)))

\* .range(first, last): positions are counted from 0, both ends included
PageOf(rows, first, last) == SubSeq(rows, first + 1, Min(last + 1, Len(rows)))

\* the rows the loop in progress pages through
PagedRows ==
  IF pager.loop = "chunks" THEN Result(IterChunksQuery(pager.extra_filters)) ELSE reviews

\* one pass of the while loop: request the page at start; stop when it is
\* empty, else yield its rows and advance start by the window
RequestPage ==
  LET rows == PageOf(PagedRows, pager.start, pager.start + _PAGE - 1)
  IN /\ ~pager.done
     /\ pager' = IF rows = << >>
                 THEN [pager EXCEPT !.offsets = Append(@, pager.start), !.done = TRUE]
                 ELSE [pager EXCEPT !.offsets = Append(@, pager.start),
                                    !.yielded = @ \o rows,
                                    !.start = @ + _PAGE]
     /\ UNCHANGED <<chunks, reviews, ret, queries, session_state, page, wc, sessions>>

IterAllChunkRows == pager.loop = "chunks" /\ RequestPage

IterAllReviewRows == pager.loop = "reviews" /\ RequestPage

NextPager == IterAllChunkRows \/ IterAllReviewRows

\* the extra_filters the callers pass: none, or the source of a document
ExtraFilters == {{}} \cup {{Eq("source", d)} : d \in Documents}

\* the review logs insert_chunk_review can have built
ReviewLogs ==
  UNION {[1..n -> {ReviewRow(form_payload) : form_payload \in Payloads}] : n \in 0..MaxReviews}

\* a loop about to start on any catalog and any review log
InitPager ==
  /\ chunks \in Catalogs({IntNumber(0)})
  /\ reviews \in ReviewLogs
  /\ ret = NoRet
  /\ queries = {}
  /\ session_state = EmptyDict
  /\ page = NoPage
  /\ wc = NoChoice
  /\ sessions = NoSessions
  /\ pager \in {[NoPager EXCEPT !.loop = "reviews"]} \cup
               {[NoPager EXCEPT !.loop = "chunks", !.extra_filters = f] : f \in ExtraFilters}

\* The loop runs in the thread of the script and every store request returns:
\* a loop that can make its next request makes it.
SpecPager == InitPager /\ [][NextPager]_vars /\ WF_vars(NextPager)

\* ================================================================ claims

\* ---- C1
\* C1: for every chunk id x and every store content, get_similar_chunk(x)
\* returns either none or a row whose chunk_uuid differs from x, on every
\* branch; it raises nothing.
C1_SimilarNeverReturnsGiven ==
  ret.op = "get_similar_chunk" =>
    \/ ret.kind = "none"
    \/ ret.kind = "row" /\ ret.uuid # ret.arg

\* a same-source pick, with the given chunk still unreviewed and so a
\* candidate the exclusion has to remove
C1_Witness ==
  /\ ret.op = "get_similar_chunk"
  /\ ret.kind = "row"
  /\ ret.branch = "same source"
  /\ Len(reviews) > 0
  /\ ret.arg \notin _fetch_all_reviewed_chunk_uuids
  /\ ret.uuid \in _fetch_all_reviewed_chunk_uuids

\* ---- C2
\* C2: insert_chunk_review raises the validation error and makes no store
\* call whenever the payload's chunk_uuid is not present and truthy: the
\* empty payload, a payload without the key, a chunk_uuid of None or "".
C2_InsertRequiresTruthyUuid ==
  (ret.op = "insert_chunk_review"
   /\ ret.arg \in {"empty payload", "no key", None, ""}) =>
     /\ ret.kind = "error"
     /\ queries = {}

\* ---- C3
\* C3: every complete submission of the displayed chunk c appends exactly one
\* review row with chunk_uuid = c to the review log, whatever the store
\* contains; an incomplete submission appends no row.
C3_SubmissionInsertsOnce ==
  [][(page'.run = "submit" /\ page' # page) =>
       IF page'.complete
       THEN reviews' = Append(reviews, [chunk_uuid |-> page.chunk])
       ELSE reviews' = reviews]_vars

\* ---- C4
\* C4: get_adjacent_chunk with a direction that is neither "next" nor "prev"
\* raises an error and never returns the not-found value, for every chunk id.
C4_BogusDirectionRaises ==
  (ret.op = "get_adjacent_chunk" /\ ret.direction \notin {"next", "prev"}) =>
    ret.kind = "error"

\* ---- C5
\* the call's chunk id resolves in the run scope to a row whose chunk_number
\* is not NULL and not a number
NonNumericCurrent ==
  /\ ret.op = "get_adjacent_chunk"
  /\ ret.arg \in ChunkIds
  /\ chunks[ret.arg].chunking_run_id = CurrentRun
  /\ chunks[ret.arg].chunk_number = TextNumber

\* C5 as stated: a non-numeric chunk_number on the resolved current row is
\* signalled as an error, not as the not-found value.
C5_NonNumericRaises == NonNumericCurrent => ret.kind = "error"

\* C5 as amended: a non-numeric chunk_number on the resolved current row
\* makes get_adjacent_chunk return the not-found value, for every direction;
\* no error is raised.
C5_NonNumericIsNotFound ==
  NonNumericCurrent => (ret.kind = "false" /\ ret.uuid = "")

\* the int() conversion failed on a row with a source, direction invalid
C5_Witness ==
  /\ NonNumericCurrent
  /\ chunks[ret.arg].source = "docA"
  /\ ret.direction = "bogus"
  /\ ret.branch = "not a number"

\* ---- C6
\* the call's chunk id resolves in the run scope to a row with a source and
\* an integer chunk_number
ResolvedCurrent ==
  /\ ret.op = "get_adjacent_chunk"
  /\ ret.arg \in ChunkIds
  /\ chunks[ret.arg].chunking_run_id = CurrentRun
  /\ chunks[ret.arg].source # None
  /\ chunks[ret.arg].chunk_number.kind = "int"

\* the chunk_number values the call's catalog queries asked for
QueriedNumbers ==
  {f.n : f \in {g \in UNION {q.filters : q \in queries} : g.col = "chunk_number"}}

\* C6: get_adjacent_chunk(x, "prev") on a chunk of chunk_number 0 returns
\* not-found and looks up no negative chunk_number; no call of
\* get_adjacent_chunk ever queries the catalog for a chunk_number < 0.
C6_NoNegativeLookup ==
  /\ (ResolvedCurrent /\ ret.direction = "prev" /\ chunks[ret.arg].chunk_number.n = 0) =>
       (ret.kind = "false" /\ QueriedNumbers = {})
  /\ ret.op = "get_adjacent_chunk" => \A n \in QueriedNumbers : n >= 0

\* prev of a first chunk whose document has further chunks
C6_Witness ==
  /\ ResolvedCurrent
  /\ ret.direction = "prev"
  /\ chunks[ret.arg].chunk_number.n = 0
  /\ ret.branch = "before first"
  /\ \E c \in ChunkIds \ {ret.arg} : chunks[c].source = chunks[ret.arg].source

\* ---- C7
\* the chunk_number get_adjacent_chunk is asked for
TargetNumber == chunks[ret.arg].chunk_number.n + (IF ret.direction = "next" THEN 1 ELSE -1)

\* the rows of the run with the current row's source and the target number
AdjacentRows ==
  {c \in ChunkIds :
     /\ chunks[c].chunking_run_id = CurrentRun
     /\ chunks[c].source = chunks[ret.arg].source
     /\ chunks[c].chunk_number = IntNumber(TargetNumber)}

\* C7: for a chunk resolving in scope to (source s, chunk_number n),
\* get_adjacent_chunk returns for "next" the in-scope row of s with number
\* n+1 and for "prev" the one with number n-1 when such a row exists, and
\* not-found (no error, no other row) when none exists.
C7_AdjacentIsNeighbour ==
  (ResolvedCurrent /\ ret.direction \in {"next", "prev"}) =>
    IF AdjacentRows # {}
    THEN ret.kind = "row" /\ ret.uuid \in AdjacentRows
    ELSE ret.kind = "false"

\* a document with chunk_numbers 0, 1, 2: next of chunk 1 is chunk 2
C7_Witness ==
  /\ ResolvedCurrent
  /\ \A c \in ChunkIds : chunks[c].chunking_run_id = CurrentRun /\ chunks[c].source = "docA"
  /\ {chunks[c].chunk_number : c \in ChunkIds} = {IntNumber(0), IntNumber(1), IntNumber(2)}
  /\ ret.direction = "next"
  /\ chunks[ret.arg].chunk_number = IntNumber(1)
  /\ ret.kind = "row"
  /\ chunks[ret.uuid].chunk_number = IntNumber(2)

\* ---- C8
\* does the catalog row of key c satisfy every predicate of the run scope
InScope(c) == \A f \in get_chunking_run_filter : Matches(Row(c), f)

SelectionOps ==
  {"get_random_chunk", "get_similar_chunk", "get_chunk_by_uuid", "get_adjacent_chunk"}

\* C8: every row get_random_chunk, get_similar_chunk, get_chunk_by_uuid and
\* get_adjacent_chunk return satisfies the predicates of the run scope;
\* every catalog query they and the coverage index builder issue carries the
\* run-scope predicates next to the caller's own; the coverage index holds
\* no chunk of another run.
C8_RunScopeEverywhere ==
  /\ (ret.op \in SelectionOps /\ ret.kind = "row") =>
       (ret.uuid \in ChunkIds /\ InScope(ret.uuid))
  /\ \A q \in queries :
       q.table = CHUNKS_TABLE => get_chunking_run_filter \subseteq q.filters
  /\ \A c \in _fetch_all_chunk_uuids_in_run : InScope(c)
  /\ \A c \in _fetch_all_reviewed_chunk_uuids : InScope(c)
  /\ \A s \in DOMAIN _fetch_all_chunks_source_map :
       \A c \in _fetch_all_chunks_source_map[s] : InScope(c)

\* a row is returned while a row of another run has the same source and the
\* same chunk_number: only the run scope tells them apart
C8_Witness ==
  /\ ret.op = "get_adjacent_chunk"
  /\ ret.kind = "row"
  /\ \E c \in ChunkIds :
       /\ ~InScope(c)
       /\ chunks[c].source = chunks[ret.uuid].source
       /\ chunks[c].chunk_number = chunks[ret.uuid].chunk_number

\* ---- C9
\* the sources of the sampler's mapping that have a chunk
Weighted == {src \in DOMAIN wc.source_to_chunks : wc.source_to_chunks[src] # {}}

\* the coverage of a source is 0 / is 1
Uncovered(src) == ReviewedIn(wc.source_to_chunks[src], wc.reviewed_set) = {}
Covered(src) ==
  ReviewedIn(wc.source_to_chunks[src], wc.reviewed_set) = wc.source_to_chunks[src]

\* the weights of two sources compared as fractions: the numerators over
\* the denominators total * EpsDen, cross-multiplied
Heavier(a, b) ==
  SourceWeight(wc.source_to_chunks, wc.reviewed_set, a)
    * Cardinality(wc.source_to_chunks[b])
  > SourceWeight(wc.source_to_chunks, wc.reviewed_set, b)
    * Cardinality(wc.source_to_chunks[a])

\* C9: _weighted_choice_by_coverage gives every source with a chunk a
\* strictly positive weight, a source of coverage 0 a strictly higher weight
\* than a source of coverage 1, returns only a key of the mapping that has a
\* chunk, and returns none exactly when no source of the mapping has a chunk.
C9_SamplerWeights ==
  wc.called =>
    /\ \A src \in Weighted :
         SourceWeight(wc.source_to_chunks, wc.reviewed_set, src) > 0
    /\ \A a \in Weighted : \A b \in Weighted :
         (Uncovered(a) /\ Covered(b)) => Heavier(a, b)
    /\ wc.chosen = None <=> Weighted = {}
    /\ wc.chosen # None => wc.chosen \in Weighted

\* a fully reviewed source is drawn although an unreviewed one is offered
C9_Witness ==
  /\ wc.called
  /\ wc.chosen \in Weighted
  /\ Covered(wc.chosen)
  /\ \E a \in Weighted \ {wc.chosen} : Uncovered(a)

\* ---- C10
\* C10: after an incomplete submission the script presents the chunk that
\* was shown when the reviewer pressed Submit and the session's chunk_uuid is
\* unchanged; after any sequence of loads and submissions the session's
\* chunk_uuid is the chunk_uuid of the chunk last presented.
C10_SessionFollowsPresentedChunk ==
  /\ (page.run = "submit" /\ ~page.complete) =>
       /\ page.chunk # None
       /\ page.chunk = page.before
       /\ session_state["chunk_uuid"] = page.uuid_before
  /\ page.presented # None =>
       ("chunk_uuid" \in DOMAIN session_state
        /\ session_state["chunk_uuid"] = page.presented)
  /\ page.presented = None => "chunk_uuid" \notin DOMAIN session_state

\* an incomplete submission on the chunk presented after a complete one
C10_Witness ==
  /\ page.run = "submit"
  /\ ~page.complete
  /\ Len(reviews) > 0
  /\ page.chunk # reviews[1].chunk_uuid


\* ---- C11
\* the queries of the chunk loading of a run from session state ss
LoadQueries(ss) == UNION {o.q : o \in LoadChunk(ss)}

\* reads only: selects, and calls of the three counting procedures
ReadOnly(qs) == \A q \in qs : q.verb \in {"select", "rpc"}

\* the queries the next step of a session in state a can issue
StepQueries(a) ==
  CASE a.pc = "idle" ->
         LoadQueries(a.ss) \cup
         (IF a.chunk # None
          THEN UNION {LoadQueries(onclick(a.ss, filled)) : filled \in SessionFilled}
          ELSE {})
    [] a.pc = "render" -> RenderQueries(a.ss)
    [] a.pc = "form" ->
         IF a.pending /\ is_submitted_correctly(a.ss)
         THEN insert_chunk_review(a.ss["submitted"]).out.q ELSE {}
    [] OTHER -> StatsQueries(a.ss)

\* C11: under every interleaving of the steps of two reviewer sessions the
\* chunk catalog never changes; the step that inserts a review issues one
\* insert on the review log and appends exactly the submitted row, leaving
\* every earlier row as it was; every other step (chunk selection, adjacent
\* chunks, counts, statistics) issues reads only and leaves the review log
\* unchanged.
C11_AppendOnlyStore ==
  /\ [](\A s \in SessionIds :
          IF sessions[s].pc = "form"
          THEN StepQueries(sessions[s]) \subseteq {InsertQuery(REVIEWS_TABLE)}
          ELSE ReadOnly(StepQueries(sessions[s])))
  /\ [][/\ chunks' = chunks
        /\ \A s \in SessionIds :
             sessions'[s] # sessions[s] =>
               IF sessions[s].pc = "form" /\ sessions'[s].inserted
               THEN reviews' = Append(reviews, ReviewRow(sessions[s].ss["submitted"]))
               ELSE reviews' = reviews]_vars

\* both sessions have inserted a review of the same chunk in runs that overlap
C11_Witness ==
  /\ \A s \in SessionIds : sessions[s].pc = "stats" /\ sessions[s].inserted
  /\ Len(reviews) = 2
  /\ reviews[1].chunk_uuid = reviews[2].chunk_uuid

\* ---- C12
\* the in-scope rows, and those of them that have a source
ScopedRows == {c \in ChunkIds : InScope(c)}
SourcedRows == {c \in ScopedRows : Truthy(chunks[c].source)}

\* C12: get_random_chunk returns none when no row is in scope, and returns
\* a row in scope whenever rows are in scope but none of them has a source.
C12_FallbackOnEmptyGrouping ==
  ret.op = "get_random_chunk" =>
    /\ ScopedRows = {} => ret.kind = "none"
    /\ (ScopedRows # {} /\ SourcedRows = {}) => (ret.kind = "row" /\ ret.uuid \in ScopedRows)

\* ---- C13
\* the chunks with at least one review row
HasReview(c) == \E i \in 1..Len(reviews) : reviews[i].chunk_uuid = c

\* the in-scope chunks of the source of chunk c
SameSourceRows(c) == {d \in SourcedRows : chunks[d].source = chunks[c].source}

\* C13: a chunk get_random_chunk returns from the source the weighted sampler
\* chose has no review whenever an in-scope chunk of that source has none; it
\* is a reviewed chunk only if every in-scope chunk of the source is reviewed.
C13_PrefersUnreviewed ==
  (ret.op = "get_random_chunk" /\ ret.kind = "row" /\ ret.branch = "weighted source") =>
    /\ (\E d \in SameSourceRows(ret.uuid) : ~HasReview(d)) => ~HasReview(ret.uuid)
    /\ HasReview(ret.uuid) => \A d \in SameSourceRows(ret.uuid) : HasReview(d)

\* the sampler chose a source with a reviewed and an unreviewed chunk
C13_Witness ==
  /\ ret.op = "get_random_chunk" /\ ret.kind = "row" /\ ret.branch = "weighted source"
  /\ \E d \in SameSourceRows(ret.uuid) : HasReview(d)
  /\ ~HasReview(ret.uuid)

\* ---- C14
\* C14: the set _fetch_all_reviewed_chunk_uuids returns is the set of the
\* in-scope chunks with at least one review row, hence a subset of the
\* in-scope ids; when no chunk is in scope the set is empty and the call
\* issues no query on the review log.
C14_ReviewedWithinScope ==
  ret.op = "_fetch_all_reviewed_chunk_uuids" =>
    /\ _fetch_all_reviewed_chunk_uuids = {c \in ScopedRows : HasReview(c)}
    /\ _fetch_all_reviewed_chunk_uuids \subseteq _fetch_all_chunk_uuids_in_run
    /\ ScopedRows = {} =>
         /\ _fetch_all_reviewed_chunk_uuids = {}
         /\ \A q \in queries : q.table # REVIEWS_TABLE

\* the review log holds a review of an in-scope chunk, one of a chunk out of
\* scope or of no chunk, and the helper has been called
C14_Witness ==
  /\ ret.op = "_fetch_all_reviewed_chunk_uuids"
  /\ \E c \in ScopedRows : HasReview(c)
  /\ \E i \in 1..Len(reviews) : reviews[i].chunk_uuid \notin ScopedRows

\* ---- C15
\* the sizes of a source's chunk list the p_same formula is checked for
MaxTotal == 5

\* total and reviewed counts of a source: total >= 1, 0 <= reviewed <= total
Counts == {tr \in (1..MaxTotal) \X (0..MaxTotal) : tr[2] <= tr[1]}

\* p_same as a function of the counts lies in [min_p, max_p], is max_p at
\* coverage 0 and min_p at coverage 1, and does not increase with coverage
\* (coverages and probabilities compared as fractions)
PSameInRange ==
  /\ \A tr \in Counts :
       /\ MinP * tr[1] <= PSameNum(tr[1], tr[2])
       /\ PSameNum(tr[1], tr[2]) <= MaxP * tr[1]
       /\ tr[2] = 0 => PSameNum(tr[1], tr[2]) * PDen = MaxP * PSameDen(tr[1])
       /\ tr[2] = tr[1] => PSameNum(tr[1], tr[2]) * PDen = MinP * PSameDen(tr[1])
  /\ \A a, b \in Counts :
       a[2] * b[1] <= b[2] * a[1] =>
         PSameNum(a[1], a[2]) * PSameDen(b[1]) >= PSameNum(b[1], b[2]) * PSameDen(a[1])

\* the in-scope chunks get_similar_chunk can return for x: of x's source, of
\* another source
SameSourceResults(x) ==
  {o.uuid : o \in {oo \in get_similar_chunk(x) :
                     oo.kind = "row" /\ chunks[oo.uuid].source = chunks[x].source}}
OtherSourceResults(x) ==
  {o.uuid : o \in {oo \in get_similar_chunk(x) :
                     oo.kind = "row" /\ chunks[oo.uuid].source # chunks[x].source}}

\* C15: p_same lies in [0.05, 0.95] for every source with total >= 1 and
\* 0 <= reviewed <= total, is 0.95 at coverage 0 and 0.05 at coverage 1 and
\* never increases with coverage; and when get_similar_chunk is called for an
\* in-scope chunk whose source has another chunk while another source has
\* chunks, a chunk of the same source and a chunk of another source are both
\* among its possible results.
C15_PSameNeverDeterministic ==
  /\ PSameInRange
  /\ (/\ ret.op = "get_similar_chunk"
      /\ ret.arg \in SourcedRows
      /\ SameSourceRows(ret.arg) \ {ret.arg} # {}
      /\ SourcedRows \ SameSourceRows(ret.arg) # {})
     => (SameSourceResults(ret.arg) # {} /\ OtherSourceResults(ret.arg) # {})

\* get_similar_chunk left the source of a chunk whose source is not reviewed
\* at all (p_same = 0.95) and still has another chunk
C15_Witness ==
  /\ ret.op = "get_similar_chunk" /\ ret.kind = "row"
  /\ ret.arg \in SourcedRows
  /\ SameSourceRows(ret.arg) \ {ret.arg} # {}
  /\ \A d \in SameSourceRows(ret.arg) : ~HasReview(d)
  /\ chunks[ret.uuid].source # chunks[ret.arg].source

\* ---- C16
\* the rows at the positions of sequence seq, as a set
RowsOf(seq) == {seq[i] : i \in 1..Len(seq)}

\* the set of rows the loop in progress yields in the other specifications
YieldedSet ==
  IF pager.loop = "chunks" THEN _iter_all_chunk_rows(pager.extra_filters)
  ELSE _iter_all_review_rows

\* the pages requested so far are those at offsets 0, W, 2W, ...; every page
\* but the last one requested was non-empty, and the loop is done exactly
\* when the last one was empty; the rows yielded so far are the first rows of
\* the matching rows, each once and in order, and all of them once the loop
\* is done
PagerInv ==
  /\ \A i \in 1..Len(pager.offsets) :
       /\ pager.offsets[i] = (i - 1) * _PAGE
       /\ (PageOf(PagedRows, pager.offsets[i], pager.offsets[i] + _PAGE - 1) = << >>)
            <=> (pager.done /\ i = Len(pager.offsets))
  /\ pager.done => Len(pager.offsets) > 0
  /\ pager.yielded = SubSeq(PagedRows, 1, Len(pager.yielded))
  /\ pager.done => (pager.yielded = PagedRows /\ RowsOf(pager.yielded) = YieldedSet)

\* C16: each pagination loop requests the pages at offsets 0, W, 2W, ...,
\* stops at the first empty page, yields every matching row of the table
\* exactly once, and terminates.
C16_PaginationExhaustive == []PagerInv /\ <>pager.done

\* a loop over three rows has finished: two full windows would hold four, so
\* it requested a full page, a partial page and the empty page
C16_Witness ==
  /\ pager.done
  /\ Len(PagedRows) = _PAGE + 1
  /\ Len(pager.offsets) = 3

\* ---- C17
\* x resolves to an in-scope row with a source, and another such chunk exists
SimilarExists(x) == x \in SourcedRows /\ SourcedRows \ {x} # {}

\* C17: get_similar_chunk(x) returns none exactly when x is falsy, x does
\* not resolve to an in-scope row with a source, or no other in-scope chunk
\* with a source exists; otherwise it returns a chunk on every draw, also
\* when x is the only chunk of its source.  It raises nothing.
C17_SimilarNoneOnlyWhenAlone ==
  ret.op = "get_similar_chunk" =>
    /\ ret.kind \in {"none", "row"}
    /\ ret.kind = "none" <=> ~SimilarExists(ret.arg)
    /\ SimilarExists(ret.arg) =>
         \A o \in get_similar_chunk(ret.arg) : o.kind = "row" /\ o.uuid \in SourcedRows \ {ret.arg}

\* x is the only chunk of its source and another source has a chunk: the
\* call fell through the same-source attempt and returned a chunk
C17_Witness ==
  /\ ret.op = "get_similar_chunk" /\ ret.kind = "row"
  /\ SameSourceRows(ret.arg) = {ret.arg}
  /\ ret.branch = "weighted other source"

====
